---- MODULE Spec2Model ----
(***************************************************************************)
(* CIAL Activity Tracker: the eligibility/statistics engine                *)
(* (utils/logic.ts), the submission gate (services/apiService.ts), the     *)
(* submission form (components/SubmissionForm.tsx) and the local/cloud     *)
(* merge of the intern dashboard (components/InternDashboard.tsx).         *)
(*                                                                         *)
(* Calendar dates ('YYYY-MM-DD' strings in the code) are day numbers: the  *)
(* string order of well-formed ISO dates is the order of the day numbers,  *)
(* and new Date('YYYY-MM-DD') is UTC midnight of that day, so getTime()    *)
(* differences are whole multiples of 24 hours.  Instants are counted in   *)
(* hours.  averageHours (a double in the code) is an exact fraction in     *)
(* lowest terms.                                                           *)
(***************************************************************************)
EXTENDS Integers, Sequences, FiniteSets, TLC

-----------------------------------------------------------------------------
(* Bounds of the model *)

\* longest freely enumerated activity list handed to the engine
MaxLen == 3
\* the enumerated lists carry dates 1..MaxDate; the clock starts on day MaxDate
MaxDate == 3
\* how often the ambient clock moves between two engine calls
MaxTicks == 1

-----------------------------------------------------------------------------
(* Program constants *)

\* logic.ts:24  if (activeDays < 60)
RequiredActiveDays == 60
\* logic.ts:25  if (averageHours < 2.5), in tenths of an hour
RequiredAvgTenths == 25
\* logic.ts:26  if (maxGap > 3)
AllowedGapDays == 3
\* logic.ts:18  1000 * 60 * 60 * 24 milliseconds, in hours
HoursPerDay == 24
\* config.ts PROGRAM_SETTINGS
MIN_DAYS_FOR_CERTIFICATE == 90
MIN_HOURS_PER_DAY_TENTHS == 25
MAX_ALLOWED_GAP_DAYS == 3
\* apiService.ts:113  let qualityScore = 5
DefaultQualityScore == 5

-----------------------------------------------------------------------------
(* Generic helpers *)

RECURSIVE Gcd(_, _)
Gcd(a, b) == IF b = 0 THEN a ELSE Gcd(b, a % b)

\* the double n / d, kept exact: a fraction in lowest terms
Quotient(n, d) ==
    LET g == Gcd(n, d) IN
    IF n = 0 THEN [num |-> 0, den |-> 1] ELSE [num |-> n \div g, den |-> d \div g]

RatLessOrEqual(q, numTenths) == 10 * q.num <= numTenths * q.den

\* q < numTenths / 10
RatLess(q, numTenths) == 10 * q.num < numTenths * q.den

\* Number.prototype.toFixed(1): the nearest tenth, the larger one on a tie
ToFixed1(q) == (20 * q.num + q.den) \div (2 * q.den)

\* a finite sequence, element by element
Tuple(f) == SubSeq(f, 1, Len(f))

\* the comparators of the program's sorts: a.date.localeCompare(b.date) and
\* b.date.localeCompare(a.date), as "sorts no later than"
DateAscLe(a, b) == a.date <= b.date
DateDescLe(a, b) == a.date >= b.date

\* Array.prototype.sort with one of the two comparators: a stable sort.  An
\* element's place is the number of elements that sort before it: those
\* strictly smaller, and the equal ones that come earlier in the list.
SortBy(descending, s) ==
    LET Le(x, y) == IF descending THEN DateDescLe(x, y) ELSE DateAscLe(x, y)
        Before(j, i) == \/ Le(s[j], s[i]) /\ ~Le(s[i], s[j])
                        \/ Le(s[j], s[i]) /\ Le(s[i], s[j]) /\ j < i
        place == Tuple([i \in DOMAIN s |-> Cardinality({j \in DOMAIN s : Before(j, i)})])
    IN  Tuple([k \in DOMAIN s |-> s[CHOOSE i \in DOMAIN s : place[i] = k - 1]])

Reverse(s) == Tuple([i \in 1..Len(s) |-> s[Len(s) + 1 - i]])

RECURSIVE SumHoursOf(_, _, _)
\* the hours of s[lo..hi] added up
SumHoursOf(s, lo, hi) ==
    IF lo > hi THEN 0
    ELSE IF lo = hi THEN s[lo].hours
    ELSE LET mid == (lo + hi) \div 2
         IN  SumHoursOf(s, lo, mid) + SumHoursOf(s, mid + 1, hi)

SumHours(s) == SumHoursOf(s, 1, Len(s))

SetMax(S) == CHOOSE x \in S : \A y \in S : y <= x
SetMin(S) == CHOOSE x \in S : \A y \in S : x <= y

-----------------------------------------------------------------------------
(* utils/logic.ts *)

\* new Set(activities.map(a => a.date))
UniqueDates(activities) == {activities[i].date : i \in DOMAIN activities}

\* [...activities].sort((a, b) => a.date.localeCompare(b.date))
SortedByDateUnsorted(activities) == activities
SortedByDate(activities) == SortBy(FALSE, activities)

\* activities.reduce((acc, curr) => acc + (Number(curr.hours) || 0), 0);
\* hours are numbers here, which Number(h) || 0 leaves as they are
TotalHoursPerDate(activities) ==
    SumHours(Tuple([i \in DOMAIN activities |->
        [hours |-> IF \E j \in 1..(i - 1) : activities[j].date = activities[i].date
                   THEN 0 ELSE activities[i].hours]]))
TotalHours(activities) == SumHours(activities)

\* activeDays > 0 ? totalHours / activeDays : 0
AverageHours(totalHours, activeDays) ==
    IF activeDays > 0 THEN Quotient(totalHours, activeDays) ELSE Quotient(0, 1)

\* diffDays of the pair (sorted[i - 1], sorted[i]), logic.ts:15-18
DiffDays(sorted, i) ==
    LET diffTime == (sorted[i].date - sorted[i - 1].date) * HoursPerDay
    IN  (diffTime \div HoursPerDay) - 1

MaxGapFromFirstPair(sorted) ==
    IF Len(sorted) > 1
    THEN SetMax({DiffDays(sorted, i) : i \in 2..Len(sorted)})
    ELSE 0

\* let maxGap = 0; if (sorted.length > 1) for (...) if (diffDays > maxGap)
\* maxGap = diffDays: the largest diffDays, and 0 when none exceeds 0
MaxGap(sorted) ==
    IF Len(sorted) > 1
    THEN SetMax({0} \cup {DiffDays(sorted, i) : i \in 2..Len(sorted)})
    ELSE 0

ReasonsSkippingNoRecords(activeDays, averageHours, maxGap) ==
    (IF activeDays > 0 /\ activeDays < RequiredActiveDays
     THEN << [criterion |-> "activeDays", current |-> activeDays] >> ELSE << >>)
    \o (IF RatLess(averageHours, RequiredAvgTenths)
        THEN << [criterion |-> "averageHours", current |-> ToFixed1(averageHours)] >>
        ELSE << >>)
    \o (IF maxGap > AllowedGapDays
        THEN << [criterion |-> "maxGap", current |-> maxGap] >> ELSE << >>)

ReasonsGapFirst(activeDays, averageHours, maxGap) ==
    (IF maxGap > AllowedGapDays
     THEN << [criterion |-> "maxGap", current |-> maxGap] >> ELSE << >>)
    \o (IF activeDays < RequiredActiveDays
        THEN << [criterion |-> "activeDays", current |-> activeDays] >> ELSE << >>)
    \o (IF RatLess(averageHours, RequiredAvgTenths)
        THEN << [criterion |-> "averageHours", current |-> ToFixed1(averageHours)] >>
        ELSE << >>)

ReasonsMoreThanRequired(activeDays, averageHours, maxGap) ==
    (IF activeDays <= RequiredActiveDays
     THEN << [criterion |-> "activeDays", current |-> activeDays] >> ELSE << >>)
    \o (IF RatLess(averageHours, RequiredAvgTenths)
        THEN << [criterion |-> "averageHours", current |-> ToFixed1(averageHours)] >>
        ELSE << >>)
    \o (IF maxGap > AllowedGapDays
        THEN << [criterion |-> "maxGap", current |-> maxGap] >> ELSE << >>)

\* the three pushes of logic.ts:23-26; a reason is its criterion and the
\* measured value its text quotes
Reasons(activeDays, averageHours, maxGap) ==
    (IF activeDays < RequiredActiveDays
     THEN << [criterion |-> "activeDays", current |-> activeDays] >> ELSE << >>)
    \o (IF RatLess(averageHours, RequiredAvgTenths)
        THEN << [criterion |-> "averageHours", current |-> ToFixed1(averageHours)] >>
        ELSE << >>)
    \o (IF maxGap > AllowedGapDays
        THEN << [criterion |-> "maxGap", current |-> maxGap] >> ELSE << >>)

IsEligibleEither(reasons, activeDays) == Len(reasons) = 0 \/ activeDays > 0

\* isEligible: reasons.length === 0 && activeDays > 0
IsEligible(reasons, activeDays) == Len(reasons) = 0 /\ activeDays > 0

\* what the call leaves in the caller's array: [...activities].sort(...) sorts
\* a copy, the argument is only read
ActivitiesSortedInPlace(activities) == SortedByDate(activities)
ActivitiesAfterEligibility(activities) == activities

\* the engine counting only the records dated on or after joiningDate
calculateEligibilitySinceJoining(activities, joiningDate) ==
    LET counted      == SelectSeq(activities, LAMBDA a : a.date >= joiningDate)
        sorted       == SortedByDate(counted)
        activeDays   == Cardinality(UniqueDates(counted))
        totalHours   == TotalHours(counted)
        averageHours == AverageHours(totalHours, activeDays)
        maxGap       == MaxGap(sorted)
        reasons      == Reasons(activeDays, averageHours, maxGap)
    IN  [isEligible   |-> IsEligible(reasons, activeDays),
         activeDays   |-> activeDays,
         averageHours |-> averageHours,
         maxGapDays   |-> maxGap,
         reasons      |-> reasons]

\* joiningDate is a parameter the body never reads
calculateEligibility(activities, joiningDate) ==
    LET sorted       == SortedByDate(activities)
        activeDays   == Cardinality(UniqueDates(activities))
        totalHours   == TotalHours(activities)
        averageHours == AverageHours(totalHours, activeDays)
        maxGap       == MaxGap(sorted)
        reasons      == Reasons(activeDays, averageHours, maxGap)
    IN  [isEligible   |-> IsEligible(reasons, activeDays),
         activeDays   |-> activeDays,
         averageHours |-> averageHours,
         maxGapDays   |-> maxGap,
         reasons      |-> reasons]

\* The ambient clock: now is the instant new Date() returns (hours since the
\* epoch), tz the local UTC offset in force now, tzY the offset in force at
\* the same wall-clock time of the previous local day (tz # tzY across a
\* daylight-saving change).

\* toISOString().split('T')[0]: the UTC calendar day of an instant
IsoDay(t) == t \div HoursPerDay

\* toLocaleDateString('en-CA'): the local calendar day of an instant
LocalDay(t, offset) == (t + offset) \div HoursPerDay

TodayStrWestOfUtc(clock) == LocalDay(clock.now, clock.tz - 1)

\* new Date().toISOString().split('T')[0]
TodayStr(clock) == IsoDay(clock.now)

\* yesterday.setDate(yesterday.getDate() - 1): the same local wall-clock time
\* on the previous local day, converted back with the offset in force then
YesterdayInstant(clock) == (clock.now + clock.tz) - HoursPerDay - clock.tzY

YesterdayStr(clock) == IsoDay(YesterdayInstant(clock))

\* Array.from(uniqueDates).sort().reverse(): the distinct dates, newest
\* first (the default sort orders ISO date strings chronologically)
DateStrs(uniqueDates) ==
    LET above == [d \in uniqueDates |-> Cardinality({e \in uniqueDates : e > d})] @@ << >>
    IN  Tuple([k \in 1..Cardinality(uniqueDates) |->
                  CHOOSE d \in uniqueDates : above[d] = k - 1])

\* Math.round of a quotient of integers, b > 0
RoundDiv(a, b) == (2 * a + b) \div (2 * b)

StreakWalkNoBreak(dateStrs) ==
    1 + Cardinality({i \in 2..Len(dateStrs) :
            RoundDiv((dateStrs[i - 1] - dateStrs[i]) * HoursPerDay, HoursPerDay) = 1})

\* the loop of logic.ts:62-72: streak++ for every pair of dates one day
\* apart, up to the first pair that is not (break)
StreakWalk(dateStrs) ==
    LET Consecutive(i) ==
            RoundDiv((dateStrs[i - 1] - dateStrs[i]) * HoursPerDay, HoursPerDay) = 1
        breaks == {i \in 2..Len(dateStrs) : ~Consecutive(i)}
    IN  IF breaks = {} THEN Len(dateStrs) ELSE SetMin(breaks) - 1

\* logic.ts:48-74
CurrentStreak(dateStrs, todayStr, yesterdayStr) ==
    IF Len(dateStrs) > 0
    THEN IF dateStrs[1] # todayStr /\ dateStrs[1] # yesterdayStr
         THEN 0
         ELSE StreakWalk(dateStrs)
    ELSE 0

\* totalSubmissions: activities.length
TotalSubmissionsDistinct(activities) == Cardinality(UniqueDates(activities))
TotalSubmissions(activities) == Len(activities)

\* what the call leaves in the caller's array: new Set(...) and
\* Array.from(uniqueDates).sort().reverse() build new objects, the argument is
\* only read
ActivitiesAfterStats(activities) == activities

\* calculateStats reads the wall clock (new Date()): clock is that reading
calculateStats(activities, clock) ==
    IF Len(activities) = 0
    THEN [totalActiveDays |-> 0, averageHours |-> Quotient(0, 1),
          currentStreak |-> 0, totalSubmissions |-> 0]
    ELSE LET activeDays   == Cardinality(UniqueDates(activities))
             totalHours   == TotalHours(activities)
             averageHours == AverageHours(totalHours, activeDays)
             dateStrs     == DateStrs(UniqueDates(activities))
         IN  [totalActiveDays  |-> activeDays,
              averageHours     |-> averageHours,
              currentStreak    |-> CurrentStreak(dateStrs, TodayStr(clock), YesterdayStr(clock)),
              totalSubmissions |-> TotalSubmissions(activities)]

-----------------------------------------------------------------------------
(* State *)

VARIABLES
    now,        \* the wall clock: hours since the epoch
    tz,         \* local UTC offset in force now, in hours
    tzY,        \* local UTC offset in force one local day ago
    acts,       \* the activities argument of the engine calls
    ticks,      \* clock moves so far
    statsRes,   \* << call >> the latest calculateStats call, << >> before it
    eligRes,    \* << call >> the latest calculateEligibility call
    cloud,      \* the activity rows of the spreadsheet behind GOOGLE_SHEET_API_URL
    nextId,     \* number of activities created so far (ids are act-<Date.now()>)
    accepted,   \* the activities submitActivity has returned
    apiRes,     \* << call >> the latest direct call of the api service, << >> before it
    vault,      \* per browser: localStorage[cial_activities_<internId>], << >> if unset
    mounted,    \* per browser: isMounted.current of the InternDashboard
    activities, \* per browser: the dashboard's activities state
    loading,    \* per browser: the dashboard's loading state
    syncing,    \* per browser: the dashboard's syncing state
    sync,       \* per browser: "sent" while the dashboard's fetchData awaits,
                \* "orphaned" while it awaits and the dashboard is unmounted
    form,       \* per browser: the SubmissionForm's handleSubmit in progress
    app,        \* per browser: "closed" with no page open, "started" once App is
                \* rendered and its start effect is due, "ready" after the effect
    appLoading, \* per browser: App's loading state
    session,    \* per browser: localStorage[intern_session_user] and
                \* localStorage[intern_session_timestamp], each << >> if unset
    lastSync    \* << sync >> the latest fetchData that was followed through its
                \* merge, << >> before it

clockVars  == << now, tz, tzY >>
engineVars == << acts, statsRes, eligRes >>
storeVars  == << cloud, nextId, accepted, apiRes >>
dashVars   == << vault, mounted, activities, loading, syncing, sync, form >>
appVars    == << app, appLoading, session, lastSync >>
vars == << clockVars, ticks, engineVars, storeVars, dashVars, appVars >>

Clock == [now |-> now, tz |-> tz, tzY |-> tzY]

-----------------------------------------------------------------------------
(* The engine applied to enumerated inputs *)

\* SubmissionForm.tsx:95-96: the two options of the hours select
FormHours == {2, 3}

\* the intern who is logged in, in both browsers
Intern == "I1"
\* user.joiningDate, a calendar date like the records' dates: the day of the
\* oldest enumerated record, or the day the clock starts on
JoiningDate == 1
JoiningDates == {JoiningDate, MaxDate}

\* the browsers the intern uses
Browsers == {"b1", "b2"}

\* a record without an id (item.id is undefined or empty)
NoId == 0
\* a record without a qualityScore (undefined)
NoScore == 0
\* a score cell of the sheet whose text is no number
BadScore == -1

IdleForm == [pc |-> "idle", date |-> 0, hours |-> 0, act |-> << >>]

\* the state before any dashboard is mounted
StoreInit ==
    /\ cloud = << >>
    /\ nextId = 0
    /\ accepted = {}
    /\ apiRes = << >>

DashInit ==
    /\ vault = [b \in Browsers |-> << >>]
    /\ mounted = [b \in Browsers |-> FALSE]
    /\ activities = [b \in Browsers |-> << >>]
    /\ loading = [b \in Browsers |-> FALSE]
    /\ syncing = [b \in Browsers |-> FALSE]
    /\ sync = [b \in Browsers |-> "idle"]
    /\ form = [b \in Browsers |-> IdleForm]

\* no page is open, nobody is logged in
NoSession == [user |-> << >>, timestamp |-> << >>]
AppInit0 ==
    /\ app = [b \in Browsers |-> "closed"]
    /\ appLoading = [b \in Browsers |-> FALSE]
    /\ session = [b \in Browsers |-> NoSession]
    /\ lastSync = << >>

EngineRecord(d, h) ==
    [id |-> NoId, internId |-> Intern, date |-> d, hours |-> h,
     qualityScore |-> DefaultQualityScore]

EngineRecords == {EngineRecord(d, h) : d \in 1..MaxDate, h \in FormHours}

\* every list of at most MaxLen records: any order, repeated dates included
ShortLists == UNION {[1..n -> EngineRecords] : n \in 0..MaxLen}

\* n records of h hours, newest first, ending on day MaxDate, on consecutive
\* days but for g missed days before the k oldest records
Run(n, h, k, g) ==
    [i \in 1..n |-> EngineRecord(MaxDate - (i - 1) - (IF i > n - k THEN g ELSE 0), h)]

\* around the thresholds of logic.ts:24 and of PROGRAM_SETTINGS
LongRunLengths ==
    {RequiredActiveDays - 1, RequiredActiveDays, MIN_DAYS_FOR_CERTIFICATE - 1}

LongLists ==
    {Run(n, h, 1, g) : n \in LongRunLengths, h \in FormHours,
                       g \in {0, AllowedGapDays, AllowedGapDays + 1}}

MediumLists ==
    LET runs == {Run(n, h, k, g) : n \in 3..(MaxLen + 2), h \in FormHours,
                                   k \in 1..2, g \in 0..2}
    IN  runs \cup {Reverse(r) : r \in runs}

InputLists == ShortLists \cup MediumLists \cup LongLists

\* the first and the last hour of a UTC day
DayHours == {0, HoursPerDay - 1}

\* an hour or a day passes
TickSteps == {1, HoursPerDay}

Instants(day) == {day * HoursPerDay + h : h \in DayHours}

\* the offset one local day ago differs by an hour across a daylight-saving change
OffsetsBefore(offset) == {offset - 1, offset, offset + 1}

\* the local UTC offsets: west of Greenwich, Greenwich, east of it
Offsets == {-1, 0, 1}

\* the lists around the thresholds, which the clock has no part in, meet one
\* clock reading; the others meet every one at offset 0; the lists shorter
\* than MaxLen also meet the offsets east and west, without a daylight-saving
\* change, on the day the newest records are dated and on the day before it
EngineInit ==
    /\ acts \in InputLists
    /\ tz \in Offsets
    /\ now \in Instants(MaxDate) \cup (IF tz # 0 THEN Instants(MaxDate - 1) ELSE {})
    /\ tzY \in OffsetsBefore(tz)
    /\ acts \in LongLists => (now = MaxDate * HoursPerDay /\ tzY = tz /\ tz = 0)
    /\ tz # 0 => (Len(acts) < MaxLen /\ tzY = tz)
    /\ ticks = 0
    /\ statsRes = << >>
    /\ eligRes = << >>
    /\ StoreInit
    /\ DashInit
    /\ AppInit0

\* a call of calculateStats(activities)
CallStats ==
    /\ acts' = ActivitiesAfterStats(acts)
    /\ statsRes' = << [first  |-> IF statsRes = << >> THEN now ELSE statsRes[1].first,
                       at     |-> now,
                       utcDay |-> now \div HoursPerDay,
                       dayAgo |-> (now + tz - HoursPerDay - tzY) \div HoursPerDay,
                       res    |-> calculateStats(acts, Clock)] >>
    /\ UNCHANGED << appVars, clockVars, ticks, eligRes, storeVars, dashVars >>

\* a call of calculateEligibility(activities, joiningDate)
CallEligibility ==
    /\ \E joiningDate \in JoiningDates :
          eligRes' = << [first       |-> IF eligRes = << >> THEN now ELSE eligRes[1].first,
                         at          |-> now,
                         joiningDate |-> joiningDate,
                         res         |-> calculateEligibility(acts, joiningDate)] >>
    /\ acts' = ActivitiesAfterEligibility(acts)
    /\ UNCHANGED << appVars, clockVars, ticks, statsRes, storeVars, dashVars >>

\* d hours pass; a daylight-saving change is then more than a day back
Tick(d) ==
    /\ ticks < MaxTicks
    /\ now' = now + d
    /\ tzY' = tz
    /\ ticks' = ticks + 1
    /\ UNCHANGED << tz, engineVars, storeVars, dashVars, appVars >>

EngineNext == CallStats \/ CallEligibility \/ \E d \in TickSteps : Tick(d)

EngineSpec == EngineInit /\ [][EngineNext]_vars

-----------------------------------------------------------------------------
(* services/apiService.ts *)

\* the most activities createable in one behaviour
MaxSubmits == 2

\* isMockMode: GOOGLE_SHEET_API_URL is set, so the sheet is fetched
IsMockMode == FALSE

\* mockData.ts: the mock interns, the mock administrator and the activities
\* of the mock interns, none of them Intern's
MOCK_INTERNS == << [internId |-> "MOCK"] >>
MOCK_ADMIN == [internId |-> "ADMIN"]
INITIAL_ACTIVITIES ==
    << [id |-> 1000, internId |-> "MOCK", date |-> 1, hours |-> 3, qualityScore |-> 5] >>

\* the intern rows of the sheet, as remoteInterns maps and filters them
SheetInterns == << [internId |-> Intern] >>

\* apiService.ts:67-71: hours: Number(a.hours || 0), qualityScore: Number(a.qualityScore || 5)
\* a score cell that holds text which is no number: Number(...) makes it NaN,
\* which is falsy like a missing score and is stored in the vault as null
RemoteActivity(a) ==
    [a EXCEPT !.qualityScore = IF a.qualityScore = NoScore THEN DefaultQualityScore
                               ELSE IF a.qualityScore = BadScore THEN NoScore
                               ELSE a.qualityScore]

\* what the GET of the sheet does: it answers with the rows ("ok"), throws
\* ("throws"), answers with a status that is not OK ("notOk"), or answers
\* with a body that carries an error field ("errorBody")
FetchOutcomes == {"ok", "throws", "notOk", "errorBody"}

\* a result, or an exception on its way to the caller
Returned(interns, rows) == [threw |-> FALSE, interns |-> interns, activities |-> rows]
Thrown == [threw |-> TRUE, interns |-> << >>, activities |-> << >>]

\* the try block of fetchAllData, apiService.ts:16-74
SheetData(outcome) ==
    IF outcome = "ok"
    THEN Returned(SheetInterns, Tuple([i \in DOMAIN cloud |-> RemoteActivity(cloud[i])]))
    ELSE Thrown

fetchAllDataUncaught(outcome) ==
    IF ~IsMockMode THEN SheetData(outcome) ELSE Returned(MOCK_INTERNS, INITIAL_ACTIVITIES)

\* fetchAllData: the catch of apiService.ts:76-80 returns the mock data
fetchAllData(outcome) ==
    IF ~IsMockMode
    THEN IF SheetData(outcome).threw
         THEN Returned(MOCK_INTERNS, INITIAL_ACTIVITIES)
         ELSE SheetData(outcome)
    ELSE Returned(MOCK_INTERNS, INITIAL_ACTIVITIES)

\* an async method that awaits fetchAllData: its value, or the exception of
\* fetchAllData passed on
Awaited(data, value) == [threw |-> data.threw, value |-> IF data.threw THEN << >> ELSE value]

\* getActivities(internId)
getActivities(internId, outcome) ==
    LET data == fetchAllData(outcome)
    IN  Awaited(data, SelectSeq(data.activities, LAMBDA a : a.internId = internId))

\* getAllInterns()
getAllInterns(outcome) ==
    LET data == fetchAllData(outcome) IN Awaited(data, data.interns)

\* getInternDirectory(): the interns' ids, the administrator's put first
\* when it is not among them
getInternDirectory(outcome) ==
    LET data == fetchAllData(outcome)
        list == Tuple([i \in DOMAIN data.interns |-> data.interns[i].internId])
    IN  Awaited(data, IF \E i \in DOMAIN list : list[i] = MOCK_ADMIN.internId
                      THEN list ELSE << MOCK_ADMIN.internId >> \o list)

\* loginByName(name, internId): the administrator without a fetch, else the
\* first intern with that id, << >> for null
loginByName(internId, outcome) ==
    IF internId = MOCK_ADMIN.internId THEN [threw |-> FALSE, value |-> << MOCK_ADMIN >>]
    ELSE LET data  == fetchAllData(outcome)
             found == SelectSeq(data.interns, LAMBDA u : u.internId = internId)
         IN  Awaited(data, IF found = << >> THEN << >> ELSE << found[1] >>)

\* submitActivity up to its first await result: the gate of apiService.ts:109-111
AlreadySubmitted(currentActivities, date) ==
    \E i \in DOMAIN currentActivities : currentActivities[i].date = date

\* what the scoring call does: it throws ("throws"), answers without text
\* ("empty"), with text that is not JSON ("unparsable"), with JSON whose
\* score is missing or 0 ("noScore"), or with a score ("scored")
ScoringOutcomes == {"throws", "empty", "unparsable", "noScore", "scored"}

\* the score of a "scored" answer
AiScore == 8

\* parsed.score of an answer that parses
ParsedScore(scoring) == IF scoring = "scored" THEN AiScore ELSE NoScore

QualityScoreUnset(scoring) ==
    IF scoring \in {"throws", "empty", "unparsable"} THEN NoScore
    ELSE ParsedScore(scoring)

\* apiService.ts:113-135: let qualityScore = 5; the try block assigns
\* parsed.score || 5 when the answer has text and parses, the catch and the
\* if leave the 5
QualityScore(scoring) ==
    IF scoring \in {"throws", "empty", "unparsable"} THEN DefaultQualityScore
    ELSE IF ParsedScore(scoring) # NoScore THEN ParsedScore(scoring)
    ELSE DefaultQualityScore

\* newActivity, apiService.ts:137-142
NewActivity(activity, id, qualityScore) ==
    [id |-> id, internId |-> activity.internId, date |-> activity.date,
     hours |-> activity.hours, qualityScore |-> qualityScore]

\* the POST of apiService.ts:144-156: the row is appended when the request
\* arrives; a failure is caught and logged
Posted(rows, newActivity, arrives) == IF arrives THEN Append(rows, newActivity) ELSE rows

-----------------------------------------------------------------------------
(* components/InternDashboard.tsx and components/SubmissionForm.tsx *)

\* const key = item.id || `${item.internId}_${item.date}`
MergeKey(item) ==
    IF item.id # NoId
    THEN [byId |-> TRUE, id |-> item.id, internId |-> "", date |-> 0]
    ELSE [byId |-> FALSE, id |-> NoId, internId |-> item.internId, date |-> item.date]

MergeItemLastWins(map, item) ==
    LET same == {i \in DOMAIN map : MergeKey(map[i]) = MergeKey(item)}
    IN  IF same = {} THEN Append(map, item)
        ELSE [map EXCEPT ![CHOOSE j \in same : TRUE] = item]

\* one turn of combined.forEach: uniqueMap as the list of its values in
\* insertion order
MergeItem(map, item) ==
    LET same == {i \in DOMAIN map : MergeKey(map[i]) = MergeKey(item)}
    IN  IF same = {} THEN Append(map, item)
        ELSE LET i == CHOOSE j \in same : TRUE
             IN  IF item.qualityScore # NoScore /\ map[i].qualityScore = NoScore
                 THEN [map EXCEPT ![i] = item]
                 ELSE map

RECURSIVE MergeAll(_, _)
MergeAll(map, combined) ==
    IF combined = << >> THEN map
    ELSE MergeAll(MergeItem(map, Head(combined)), Tail(combined))

MergeCloudUnsorted(prev, cloudData) == MergeAll(<< >>, prev \o cloudData)

MergeCloudOnly(prev, cloudData) == SortBy(TRUE, MergeAll(<< >>, cloudData))

\* the updater of fetchData: merge, then sort newest first
MergeCloud(prev, cloudData) == SortBy(TRUE, MergeAll(<< >>, prev \o cloudData))

\* useState initialiser: the vault's list sorted newest first, [] if unset
InitialActivities(saved) == IF saved = << >> THEN << >> ELSE SortBy(TRUE, saved[1])

\* new Date().toLocaleDateString('en-CA')
LocalTodayStr == LocalDay(now, tz)

\* hasSubmittedToday
HasSubmittedToday(b) ==
    \E i \in DOMAIN activities[b] : activities[b][i].date = LocalTodayStr

\* the auto-save effect: if (activities.length > 0) localStorage.setItem(...)
AutoSave(saved, list) == IF Len(list) > 0 THEN << list >> ELSE saved

\* App renders the InternDashboard: state initialised from the vault, the
\* effects run (isMounted, fetchData(activities.length === 0), auto-save)
RenderDashboard(b) ==
    /\ LET initial == InitialActivities(vault[b]) IN
          /\ activities' = [activities EXCEPT ![b] = initial]
          /\ vault' = [vault EXCEPT ![b] = AutoSave(vault[b], initial)]
          /\ loading' = [loading EXCEPT ![b] = (Len(initial) = 0)]
          /\ syncing' = [syncing EXCEPT ![b] = (Len(initial) # 0)]
    /\ mounted' = [mounted EXCEPT ![b] = TRUE]
    /\ sync' = [sync EXCEPT ![b] = "sent"]
    /\ form' = [form EXCEPT ![b] = IdleForm]

\* the dashboard appears, by a login or a restored session, whose keys are
\* followed in AppSpec
Mount(b) ==
    /\ ~mounted[b]
    /\ sync[b] = "idle"
    /\ RenderDashboard(b)
    /\ UNCHANGED << appVars, clockVars, ticks, engineVars, storeVars >>

\* logout or session expiry: the dashboard is unmounted, its state is gone;
\* the fetchData it awaited stays in flight.  (No logout while a submission
\* is being transmitted.)
RemoveDashboard(b) ==
    /\ mounted' = [mounted EXCEPT ![b] = FALSE]
    /\ activities' = [activities EXCEPT ![b] = << >>]
    /\ loading' = [loading EXCEPT ![b] = FALSE]
    /\ syncing' = [syncing EXCEPT ![b] = FALSE]
    /\ sync' = [sync EXCEPT ![b] = IF sync[b] = "sent" THEN "orphaned" ELSE "idle"]

Unmount(b) ==
    /\ mounted[b]
    /\ form[b].pc = "idle"
    /\ RemoveDashboard(b)
    /\ UNCHANGED << appVars, clockVars, ticks, engineVars, storeVars, vault, form >>

\* the Cloud Sync button: fetchData(false)
SyncClick(b) ==
    /\ mounted[b] /\ ~loading[b] /\ ~syncing[b]
    /\ syncing' = [syncing EXCEPT ![b] = TRUE]
    /\ sync' = [sync EXCEPT ![b] = "sent"]
    /\ UNCHANGED << appVars, clockVars, ticks, engineVars, storeVars, vault, mounted, activities,
                    loading, form >>

\* fetchData after await api.getActivities(internIdClean), dashboard mounted
FetchDataResumes(b, cloudData) ==
    /\ LET sorted == MergeCloud(activities[b], cloudData.value)
       IN  IF cloudData.threw
           THEN UNCHANGED << activities, vault >>
           ELSE /\ activities' = [activities EXCEPT ![b] = sorted]
                /\ vault' = [vault EXCEPT ![b] = << sorted >>]
    /\ loading' = [loading EXCEPT ![b] = FALSE]
    /\ syncing' = [syncing EXCEPT ![b] = FALSE]
    /\ sync' = [sync EXCEPT ![b] = "idle"]

SyncReply(b) ==
    /\ sync[b] = "sent"
    /\ \E outcome \in FetchOutcomes : FetchDataResumes(b, getActivities(Intern, outcome))
    /\ UNCHANGED << appVars, clockVars, ticks, engineVars, storeVars, mounted, form >>

\* fetchData after the await when isMounted.current is false: nothing is set
OrphanReply(b) ==
    /\ sync[b] = "orphaned"
    /\ sync' = [sync EXCEPT ![b] = "idle"]
    /\ UNCHANGED << appVars, clockVars, ticks, engineVars, storeVars, vault, mounted, activities,
                    loading, syncing, form >>

\* useState<number>(3): the hours the form submits when the select is left alone
DefaultHours == 3

\* handleSubmit up to await api.submitActivity: the form is rendered only
\* while !hasSubmittedToday, its button is disabled while loading; the hours
\* are the form's default
SubmitStart(b) ==
    /\ mounted[b] /\ ~loading[b]
    /\ ~HasSubmittedToday(b)
    /\ form[b].pc = "idle"
    /\ nextId < MaxSubmits
    /\ form' = [form EXCEPT ![b] = [pc |-> "gate", date |-> LocalTodayStr,
                                    hours |-> DefaultHours, act |-> << >>]]
    /\ UNCHANGED << appVars, clockVars, ticks, engineVars, storeVars, vault, mounted, activities,
                    loading, syncing, sync >>

\* submitActivity from its getActivities to the POST: the gate throws, and
\* handleSubmit sets the error, or the scored activity is built and posted
SubmitGate(b) ==
    /\ form[b].pc = "gate"
    /\ \E outcome \in FetchOutcomes :
          LET currentActivities == getActivities(Intern, outcome)
              activity == [internId |-> Intern, date |-> form[b].date,
                           hours |-> form[b].hours]
          IN  IF currentActivities.threw
                 \/ AlreadySubmitted(currentActivities.value, activity.date)
              THEN /\ form' = [form EXCEPT ![b] = IdleForm]
                   /\ UNCHANGED nextId
              ELSE /\ \E scoring \in ScoringOutcomes :
                         form' = [form EXCEPT
                                    ![b].pc = "push",
                                    ![b].act = << NewActivity(activity, nextId + 1,
                                                              QualityScore(scoring)) >>]
                   /\ nextId' = nextId + 1
    /\ UNCHANGED << appVars, clockVars, ticks, engineVars, cloud, accepted, apiRes, vault, mounted,
                    activities, loading, syncing, sync >>

\* handleSubmissionSuccess(newAct) as the updater of setActivities
SubmissionSuccess(prev, newAct) ==
    IF \E i \in DOMAIN prev : prev[i].date = newAct.date
    THEN prev
    ELSE SortBy(TRUE, << newAct >> \o prev)

\* submitActivity from the POST on (a failed POST is caught and logged), then
\* onSuccess(activity) in the dashboard that rendered the form
SubmitPush(b) ==
    /\ form[b].pc = "push"
    /\ LET newAct == form[b].act[1]
           prev   == activities[b]
           has    == \E i \in DOMAIN prev : prev[i].date = newAct.date
       IN  /\ \E arrives \in BOOLEAN : cloud' = Posted(cloud, newAct, arrives)
           /\ accepted' = accepted \cup {newAct}
           /\ activities' = [activities EXCEPT ![b] = SubmissionSuccess(prev, newAct)]
           /\ vault' = [vault EXCEPT
                           ![b] = IF has THEN vault[b]
                                  ELSE << SubmissionSuccess(prev, newAct) >>]
    /\ form' = [form EXCEPT ![b] = IdleForm]
    /\ UNCHANGED << appVars, clockVars, ticks, engineVars, nextId, apiRes, mounted, loading, syncing, sync >>

Init ==
    /\ now = MaxDate * HoursPerDay
    /\ tz = 0
    /\ tzY = tz
    /\ ticks = 0
    /\ acts = << >>
    /\ statsRes = << >>
    /\ eligRes = << >>
    /\ StoreInit
    /\ DashInit
    /\ AppInit0

Next ==
    \/ Tick(HoursPerDay)
    \/ \E b \in Browsers :
          \/ Mount(b)
          \/ Unmount(b)
          \/ SyncClick(b)
          \/ SyncReply(b)
          \/ OrphanReply(b)
          \/ SubmitStart(b)
          \/ SubmitGate(b)
          \/ SubmitPush(b)

Spec == Init /\ [][Next]_vars

-----------------------------------------------------------------------------
(* The api service called directly, on enumerated sheets *)

\* the most activity rows the sheet starts with
MaxRows == 2

\* another intern of the sheet
OtherIntern == "I2"

\* rows typed into the sheet: no id, a score or none
SheetRows ==
    {[id |-> NoId, internId |-> i, date |-> d, hours |-> DefaultHours, qualityScore |-> q] :
        i \in {Intern, OtherIntern}, d \in {MaxDate - 1, MaxDate}, q \in {NoScore, AiScore}}

SheetContents == UNION {[1..n -> SheetRows] : n \in 0..MaxRows}

\* the ids loginByName is called with: an intern of the sheet, the
\* administrator, an id nobody has
LoginIds == {Intern, MOCK_ADMIN.internId, "I9"}

ApiInit ==
    /\ now = MaxDate * HoursPerDay
    /\ tz = 0
    /\ tzY = tz
    /\ ticks = 0
    /\ acts = << >>
    /\ statsRes = << >>
    /\ eligRes = << >>
    /\ cloud \in SheetContents
    /\ nextId = 0
    /\ accepted = {}
    /\ apiRes = << >>
    /\ DashInit
    /\ AppInit0

ApiCall(op, outcome, scoring, res) ==
    [op |-> op, outcome |-> outcome, scoring |-> scoring, res |-> res]

CallGetActivities ==
    /\ \E outcome \in FetchOutcomes :
          apiRes' = << ApiCall("getActivities", outcome, "none",
                               getActivities(Intern, outcome)) >>
    /\ UNCHANGED << appVars, clockVars, ticks, engineVars, cloud, nextId, accepted, dashVars >>

CallGetAllInterns ==
    /\ \E outcome \in FetchOutcomes :
          apiRes' = << ApiCall("getAllInterns", outcome, "none", getAllInterns(outcome)) >>
    /\ UNCHANGED << appVars, clockVars, ticks, engineVars, cloud, nextId, accepted, dashVars >>

CallGetInternDirectory ==
    /\ \E outcome \in FetchOutcomes :
          apiRes' = << ApiCall("getInternDirectory", outcome, "none",
                               getInternDirectory(outcome)) >>
    /\ UNCHANGED << appVars, clockVars, ticks, engineVars, cloud, nextId, accepted, dashVars >>

CallLoginByName ==
    /\ \E outcome \in FetchOutcomes, internId \in LoginIds :
          apiRes' = << ApiCall("loginByName", outcome, "none",
                               loginByName(internId, outcome)) >>
    /\ UNCHANGED << appVars, clockVars, ticks, engineVars, cloud, nextId, accepted, dashVars >>

\* submitActivity as one call: the gate, the scoring, newActivity, the POST
CallSubmitActivity ==
    /\ nextId < MaxSubmits
    /\ \E outcome \in FetchOutcomes, scoring \in ScoringOutcomes, arrives \in BOOLEAN :
          LET activity == [internId |-> Intern, date |-> LocalTodayStr,
                           hours |-> DefaultHours]
              currentActivities == getActivities(Intern, outcome)
              newActivity == NewActivity(activity, nextId + 1, QualityScore(scoring))
          IN  IF currentActivities.threw
                 \/ AlreadySubmitted(currentActivities.value, activity.date)
              THEN /\ apiRes' = << ApiCall("submitActivity", outcome, "none", Thrown) >>
                   /\ UNCHANGED << cloud, nextId, accepted >>
              ELSE /\ apiRes' = << ApiCall("submitActivity", outcome, scoring,
                                           [threw |-> FALSE, value |-> << newActivity >>]) >>
                   /\ cloud' = Posted(cloud, newActivity, arrives)
                   /\ nextId' = nextId + 1
                   /\ accepted' = accepted \cup {newActivity}
    /\ UNCHANGED << appVars, clockVars, ticks, engineVars, dashVars >>

ApiNext ==
    \/ CallGetActivities
    \/ CallGetAllInterns
    \/ CallGetInternDirectory
    \/ CallLoginByName
    \/ CallSubmitActivity

ApiSpec == ApiInit /\ [][ApiNext]_vars

-----------------------------------------------------------------------------
(* App.tsx: the session of one browser, from page load to logout *)

\* the browser whose pages are followed
AppBrowsers == {"b1"}

\* an id a row of the sheet carries
SheetId == 900

\* what a score cell of the sheet holds: nothing, text that is no number, a score
ScoreCells == {NoScore, BadScore, AiScore}

\* Intern's rows of the sheet: one typed without an id for the day the clock
\* starts on, one with an id for the day before
AppSheetRow(id, q) ==
    [id |-> id, internId |-> Intern, date |-> IF id = NoId THEN MaxDate ELSE MaxDate - 1,
     hours |-> DefaultHours, qualityScore |-> q]
AppSheetRows == {AppSheetRow(id, q) : id \in {NoId, SheetId}, q \in ScoreCells}
AppSheets == UNION {[1..n -> AppSheetRows] : n \in 0..MaxRows}

AppInit ==
    /\ now \in Instants(MaxDate)
    /\ tz = 0
    /\ tzY = tz
    /\ ticks = 0
    /\ acts = << >>
    /\ statsRes = << >>
    /\ eligRes = << >>
    /\ cloud \in AppSheets
    /\ nextId = 0
    /\ accepted = {}
    /\ apiRes = << >>
    /\ DashInit
    /\ AppInit0

\* new Date(...).toDateString(): the local calendar day of an instant
ToDateString(instant) == LocalDay(instant, tz)

WithinADay(storedTimestamp, current) == current - storedTimestamp < HoursPerDay

\* loginDate === today
SameCalendarDay(storedTimestamp, current) ==
    ToDateString(storedTimestamp) = ToDateString(current)

ClearStorage(entry) == << >>

\* localStorage.removeItem of the two session keys: what is left of another
\* entry of the storage
RemoveSessionKeys(entry) == entry

\* the page is loaded: App is rendered with user null and loading true
Open(b) ==
    /\ app[b] = "closed"
    /\ app' = [app EXCEPT ![b] = "started"]
    /\ appLoading' = [appLoading EXCEPT ![b] = TRUE]
    /\ UNCHANGED << clockVars, ticks, engineVars, storeVars, dashVars, session, lastSync >>

\* the start effect of App: the stored session is restored or removed, then
\* setLoading(false); a restored intern gets the dashboard
StartEffect(b) ==
    /\ app[b] = "started"
    /\ LET storedUser      == session[b].user
           storedTimestamp == session[b].timestamp
       IN  IF storedUser # << >> /\ storedTimestamp # << >>
           THEN IF SameCalendarDay(storedTimestamp[1], now)
                THEN /\ RenderDashboard(b)
                     /\ UNCHANGED session
                ELSE /\ session' = [session EXCEPT ![b] = NoSession]
                     /\ vault' = [vault EXCEPT ![b] = RemoveSessionKeys(vault[b])]
                     /\ UNCHANGED << mounted, activities, loading, syncing, sync, form >>
           ELSE UNCHANGED << session, dashVars >>
    /\ appLoading' = [appLoading EXCEPT ![b] = FALSE]
    /\ app' = [app EXCEPT ![b] = "ready"]
    /\ UNCHANGED << clockVars, ticks, engineVars, storeVars, lastSync >>

\* handleLogin(userData) from the Login screen; the intern gets the dashboard.
\* (A fetchData of the dashboard before the last logout has resumed by then.)
Login(b) ==
    /\ app[b] = "ready"
    /\ ~mounted[b]
    /\ sync[b] = "idle"
    /\ session' = [session EXCEPT ![b] = [user |-> << Intern >>, timestamp |-> << now >>]]
    /\ RenderDashboard(b)
    /\ UNCHANGED << clockVars, ticks, engineVars, storeVars, app, appLoading, lastSync >>

\* handleLogout: setUser(null) and the two removeItem calls
Logout(b) ==
    /\ app[b] = "ready"
    /\ mounted[b]
    /\ session' = [session EXCEPT ![b] = NoSession]
    /\ vault' = [vault EXCEPT ![b] = RemoveSessionKeys(vault[b])]
    /\ RemoveDashboard(b)
    /\ UNCHANGED << clockVars, ticks, engineVars, storeVars, form, app, appLoading, lastSync >>

\* the page is closed or reloaded: the state of App and of the dashboard is
\* gone with whatever it awaited, the storage stays
Close(b) ==
    /\ app[b] # "closed"
    /\ app' = [app EXCEPT ![b] = "closed"]
    /\ appLoading' = [appLoading EXCEPT ![b] = FALSE]
    /\ mounted' = [mounted EXCEPT ![b] = FALSE]
    /\ activities' = [activities EXCEPT ![b] = << >>]
    /\ loading' = [loading EXCEPT ![b] = FALSE]
    /\ syncing' = [syncing EXCEPT ![b] = FALSE]
    /\ sync' = [sync EXCEPT ![b] = "idle"]
    /\ UNCHANGED << clockVars, ticks, engineVars, storeVars, vault, form, session, lastSync >>

\* fetchData after the await, as SyncReply, with the merge it made kept
SyncReplyFollowed(b) ==
    /\ sync[b] = "sent"
    /\ \E outcome \in FetchOutcomes :
          LET cloudData == getActivities(Intern, outcome)
          IN  /\ FetchDataResumes(b, cloudData)
              /\ lastSync' = << [browser   |-> b,
                                 threw     |-> cloudData.threw,
                                 prev      |-> activities[b],
                                 cloudData |-> cloudData.value,
                                 merged    |-> activities'[b]] >>
    /\ UNCHANGED << clockVars, ticks, engineVars, storeVars, mounted, form,
                    app, appLoading, session >>

\* somebody rewrites the score cell of a row of the sheet
SheetEdit(i, q) ==
    /\ i \in DOMAIN cloud
    /\ q # cloud[i].qualityScore
    /\ cloud' = [cloud EXCEPT ![i].qualityScore = q]
    /\ UNCHANGED << appVars, clockVars, ticks, engineVars, nextId, accepted, apiRes, dashVars >>

AppNext ==
    \/ \E d \in TickSteps : Tick(d)
    \/ \E i \in 1..MaxRows, q \in ScoreCells : SheetEdit(i, q)
    \/ \E b \in AppBrowsers :
          \/ Open(b)
          \/ StartEffect(b)
          \/ Login(b)
          \/ Logout(b)
          \/ Close(b)
          \/ SyncClick(b)
          \/ SyncReplyFollowed(b)
          \/ OrphanReply(b)

AppSpec == AppInit /\ [][AppNext]_vars

-----------------------------------------------------------------------------
(* Claims about the engine, under EngineSpec *)

HasStats == statsRes # << >>
HasElig  == eligRes # << >>
Stats == statsRes[1].res
Elig  == eligRes[1].res

DatesOf(list) == {list[i].date : i \in DOMAIN list}

\* C1: calculateEligibility returns isEligible = true exactly when its reasons
\* list is empty and activeDays > 0; an intern with zero records is never
\* eligible.
C1_EligibleIffNoReasonsAndActive ==
    HasElig =>
        /\ Elig.isEligible <=> (Elig.reasons = << >> /\ Elig.activeDays > 0)
        /\ Elig.activeDays = Cardinality(DatesOf(acts))
        /\ (Len(acts) = 0 => ~Elig.isEligible)

C1_Witness == HasElig /\ Elig.isEligible /\ Len(acts) >= RequiredActiveDays

\* the hours of all records: for every value, the value times the number of
\* records that carry it
HoursOfAllRecords(list) ==
    LET values == {list[i].hours : i \in DOMAIN list}
        RECURSIVE Add(_)
        Add(V) == IF V = {} THEN 0
                  ELSE LET v == CHOOSE x \in V : TRUE
                       IN  v * Cardinality({i \in DOMAIN list : list[i].hours = v})
                           + Add(V \ {v})
    IN  Add(values)

IsAverageOf(q, list) ==
    IF Len(list) = 0 THEN q.num = 0
    ELSE q.num * Cardinality(DatesOf(list)) = HoursOfAllRecords(list) * q.den

\* C2: calculateStats and calculateEligibility both report averageHours = the
\* sum of hours over all records divided by the number of distinct dates, and
\* 0 when there are no records.
C2_AverageOverDistinctDates ==
    /\ HasStats => IsAverageOf(Stats.averageHours, acts)
    /\ HasElig => IsAverageOf(Elig.averageHours, acts)

C2_Witness ==
    /\ HasStats /\ HasElig
    /\ Len(acts) = 3 /\ Cardinality(DatesOf(acts)) = 2
    /\ Elig.averageHours = [num |-> 4, den |-> 1]
    /\ Stats.averageHours = Elig.averageHours

\* the number of consecutive calendar days, back from day d, that carry a record
RunBackFrom(D, d) ==
    SetMin({k \in 0..Cardinality(D) : (d - k) \notin D})

\* C3: with records on N consecutive calendar days ending today currentStreak
\* is N; with a gap in the run it is the number of consecutive days between
\* today and the gap: the walk stops at the first gap and never resumes.
\* Today is the UTC calendar day of the clock reading.
C3_StreakEndsAtFirstGap ==
    (HasStats /\ Len(acts) > 0 /\ SetMax(DatesOf(acts)) = statsRes[1].utcDay)
        => Stats.currentStreak = RunBackFrom(DatesOf(acts), statsRes[1].utcDay)

C3_Witness ==
    /\ HasStats
    /\ Len(acts) > 0
    /\ SetMax(DatesOf(acts)) = statsRes[1].utcDay
    /\ Stats.currentStreak = 2
    /\ Cardinality(DatesOf(acts)) = 4

\* C4: currentStreak = 0 whenever the newest record date is neither the
\* calendar day of the clock reading nor the day before it, and
\* currentStreak >= 1 whenever it is one of the two.
C4_StreakZeroUnlessTodayOrYesterday ==
    (HasStats /\ Len(acts) > 0) =>
        LET newest == SetMax(DatesOf(acts))
            today  == statsRes[1].utcDay
        IN  IF newest = today \/ newest = today - 1
            THEN Stats.currentStreak >= 1
            ELSE Stats.currentStreak = 0

\* the missed calendar days between chronologically adjacent records
MissedDays(D) ==
    {b - a - 1 : <<a, b>> \in {p \in D \X D : p[1] < p[2] /\ ~\E c \in D : p[1] < c /\ c < p[2]}}

\* C5: for a list with distinct dates, in any order, maxGapDays is the largest
\* number of fully missed calendar days between two chronologically adjacent
\* records, 0 for fewer than two records.
C5_MaxGapIsLargestMissedRun ==
    (HasElig /\ Cardinality(DatesOf(acts)) = Len(acts)) =>
        Elig.maxGapDays = SetMax({0} \cup MissedDays(DatesOf(acts)))

C5_Witness ==
    /\ HasElig
    /\ Len(acts) = 3
    /\ acts[1].date > acts[2].date
    /\ DatesOf(acts) = {acts[3].date, acts[3].date + 1, acts[3].date + 4}
    /\ Elig.maxGapDays = 2

\* C8: the criteria are evaluated against the thresholds of PROGRAM_SETTINGS:
\* with MIN_DAYS_FOR_CERTIFICATE = 90 an intern with fewer than 90 active days
\* is not eligible.
C8_ConfiguredThresholds ==
    HasElig =>
        (Elig.isEligible <=>
            /\ Elig.activeDays >= MIN_DAYS_FOR_CERTIFICATE
            /\ ~RatLess(Elig.averageHours, MIN_HOURS_PER_DAY_TENTHS)
            /\ Elig.maxGapDays <= MAX_ALLOWED_GAP_DAYS)

C10_EmptyList ==
    Len(acts) = 0 =>
        /\ HasStats =>
              /\ Stats.totalActiveDays = 0
              /\ Stats.averageHours.num = 0
              /\ Stats.currentStreak = 0
              /\ Stats.totalSubmissions = 0
        /\ HasElig =>
              /\ ~Elig.isEligible
              /\ \E i \in DOMAIN Elig.reasons : Elig.reasons[i].criterion = "activeDays"

C10_Witness == Len(acts) = 0 /\ HasStats /\ HasElig

\* the list with, of the records sharing a date, only the first kept
WithoutDuplicateDates(list) ==
    LET keep == {i \in DOMAIN list : \A j \in 1..(i - 1) : list[j].date # list[i].date}
        rank == Tuple([i \in DOMAIN list |-> Cardinality({j \in keep : j <= i})])
    IN  Tuple([k \in 1..Cardinality(keep) |->
                  list[CHOOSE i \in keep : rank[i] = k]])

\* C11: several records sharing a date never raise maxGapDays: maxGapDays >= 0
\* and it equals the value computed on the list with the duplicate dates
\* removed.
C11_DuplicateDatesLeaveMaxGap ==
    HasElig =>
        /\ Elig.maxGapDays >= 0
        /\ Elig.maxGapDays =
              calculateEligibility(WithoutDuplicateDates(acts),
                                   eligRes[1].joiningDate).maxGapDays

C11_Witness ==
    /\ HasElig
    /\ Len(acts) = 3
    /\ Cardinality(DatesOf(acts)) = 2
    /\ Elig.maxGapDays = 1

\* C12: calculateStats returns totalActiveDays = the number of distinct dates
\* and totalSubmissions = the number of records, so totalActiveDays <=
\* totalSubmissions, with equality exactly when no two records share a date.
C12_ActiveDaysAndSubmissions ==
    HasStats =>
        /\ Stats.totalActiveDays = Cardinality(DatesOf(acts))
        /\ Stats.totalSubmissions = Len(acts)
        /\ Stats.totalActiveDays <= Stats.totalSubmissions
        /\ (Stats.totalActiveDays = Stats.totalSubmissions
              <=> \A i, j \in DOMAIN acts : acts[i].date = acts[j].date => i = j)

C12_Witness ==
    /\ HasStats
    /\ Stats.totalSubmissions = 3
    /\ Stats.totalActiveDays = 2

\* the criteria the result does not meet, in the order active days, average
\* hours, maximum gap
UnmetCriteria(res) ==
    (IF res.activeDays < RequiredActiveDays THEN << "activeDays" >> ELSE << >>)
    \o (IF RatLess(res.averageHours, RequiredAvgTenths) THEN << "averageHours" >> ELSE << >>)
    \o (IF res.maxGapDays > AllowedGapDays THEN << "maxGap" >> ELSE << >>)

\* C13: reasons holds exactly one entry per unmet criterion and none for a met
\* one, in the order active days, average hours, maximum gap; its length is
\* the number of unmet criteria.
C13_OneReasonPerUnmetCriterion ==
    HasElig =>
        /\ Len(Elig.reasons) = Len(UnmetCriteria(Elig))
        /\ \A i \in DOMAIN Elig.reasons :
              Elig.reasons[i].criterion = UnmetCriteria(Elig)[i]

C13_Witness ==
    /\ HasElig
    /\ Len(Elig.reasons) = 3
    /\ Elig.reasons[1].criterion = "activeDays"
    /\ Elig.reasons[3].criterion = "maxGap"

\* C14: the result of calculateEligibility does not depend on joiningDate: for
\* any joiningDate the call was made with, it is the result every other
\* joiningDate gives for the same list.
C14_JoiningDateIgnored ==
    HasElig => \A joiningDate \in JoiningDates :
                  Elig = calculateEligibility(acts, joiningDate)

C14_Witness ==
    /\ HasElig
    /\ eligRes[1].joiningDate = MaxDate
    /\ \E i \in DOMAIN acts : acts[i].date < eligRes[1].joiningDate
    /\ Elig.activeDays = Len(acts)
    /\ Len(acts) > 1

\* C18: calculateStats and calculateEligibility mutate nothing: after either
\* call the caller's array holds the same records in the same order.
C18_CallsLeaveTheArray ==
    [][(statsRes' # statsRes \/ eligRes' # eligRes) => acts' = acts]_vars

C18_Witness ==
    /\ HasStats /\ HasElig
    /\ Len(acts) = 3
    /\ acts[1].date > acts[2].date
    /\ acts[2].date < acts[3].date

\* the dates are consecutive calendar days
ConsecutiveDays(D) == D # {} /\ \A d \in SetMin(D)..SetMax(D) : d \in D

\* C19: for records on consecutive calendar days with fewer than 60 distinct
\* dates and an average of at least 2.5 hours, calculateEligibility returns
\* maxGapDays = 0, isEligible = false and exactly one reason, the one about
\* the 60 active days.
C19_OnlyActiveDaysUnmet ==
    (/\ HasElig
     /\ ConsecutiveDays(DatesOf(acts))
     /\ Cardinality(DatesOf(acts)) < RequiredActiveDays
     /\ 10 * HoursOfAllRecords(acts) >= RequiredAvgTenths * Cardinality(DatesOf(acts)))
        => /\ Elig.maxGapDays = 0
           /\ ~Elig.isEligible
           /\ Len(Elig.reasons) = 1
           /\ Elig.reasons[1].criterion = "activeDays"
           /\ Elig.reasons[1].current = Cardinality(DatesOf(acts))

C19_Witness ==
    /\ HasElig
    /\ Len(acts) = 2
    /\ acts[1].hours = 3 /\ acts[2].hours = 2
    /\ acts[2].date = acts[1].date + 1
    /\ Elig.activeDays = 2
    /\ Elig.averageHours = [num |-> 5, den |-> 2]
    /\ Len(Elig.reasons) = 1

C26_GateTodayCountsForStreak ==
    HasStats =>
        ((\E i \in DOMAIN acts : acts[i].date = LocalDay(statsRes[1].at, tz))
            => Stats.currentStreak >= 1)

-----------------------------------------------------------------------------
(* Claims about the dashboard and the submission gate, under Spec *)

\* two records of a list carry the same (internId, date) pair
HasDuplicateDay(list) ==
    \E i, j \in DOMAIN list :
        /\ i # j
        /\ list[i].internId = list[j].internId
        /\ list[i].date = list[j].date

\* C6: in every reachable state of an intern's dashboard the activities list
\* passed to the engine holds at most one record per (internId, date) pair.
C6_OneRecordPerInternAndDate ==
    \A b \in Browsers : mounted[b] => ~HasDuplicateDay(activities[b])

\* C7: submitActivity for intern I and date D is rejected, creates no record
\* and pushes nothing, whenever a record for (I, D) already exists, a record
\* returned by an earlier successful submitActivity call included: no call
\* passes the gate and no call posts while an activity of an earlier call for
\* the same intern and date has been returned.
C7_GateRejectsExistingRecord ==
    [][\A b \in Browsers :
          LET exists == \E a \in accepted : a.internId = Intern /\ a.date = form[b].date
          IN  /\ (form[b].pc = "gate" /\ exists) =>
                    /\ form'[b].pc # "push"
                    /\ nextId' = nextId
                    /\ cloud' = cloud
              /\ (form[b].pc = "push" /\ form'[b].pc = "idle" /\ exists) =>
                    cloud' = cloud]_vars

\* the records of a list that carry the (internId, date) pair of record r
SameDay(list, r) ==
    {i \in DOMAIN list : list[i].internId = r.internId /\ list[i].date = r.date}

\* merging the same cloud data a second time changes nothing
MergeIsIdempotent(prev, cloudData) ==
    MergeCloud(MergeCloud(prev, cloudData), cloudData) = MergeCloud(prev, cloudData)

\* a local and a cloud record of one (internId, date) pair end as one record
MergeJoinsSameDay(prev, cloudData) ==
    \A i \in DOMAIN prev :
        SameDay(cloudData, prev[i]) # {}
            => Cardinality(SameDay(MergeCloud(prev, cloudData), prev[i])) = 1

\* C15: the merge of the cached and the fetched records is idempotent and
\* keyed by (internId, date): a cloud sync that returns the same data a second
\* time leaves the activities list unchanged, and a local and a remote record
\* for the same (internId, date) are merged into one record.
C15_MergeIdempotentByInternAndDate ==
    \A b \in Browsers, outcome \in FetchOutcomes :
        (mounted[b] /\ ~HasDuplicateDay(activities[b])) =>
            /\ MergeIsIdempotent(activities[b], getActivities(Intern, outcome).value)
            /\ MergeJoinsSameDay(activities[b], getActivities(Intern, outcome).value)

-----------------------------------------------------------------------------
(* Claims about the api service, under ApiSpec *)

HasApiCall(op) == apiRes # << >> /\ apiRes[1].op = op

\* C16: a remote fetch failure never propagates to callers: when the request
\* throws, answers with a status that is not OK or with an error body,
\* fetchAllData returns the mock interns and activities, and getActivities,
\* getAllInterns, getInternDirectory and loginByName complete normally.
C16_FetchFailureFallsBackToMock ==
    /\ \A outcome \in FetchOutcomes \ {"ok"} :
          fetchAllData(outcome) = Returned(MOCK_INTERNS, INITIAL_ACTIVITIES)
    /\ \A op \in {"getActivities", "getAllInterns", "getInternDirectory", "loginByName"} :
          HasApiCall(op) => ~apiRes[1].res.threw
    /\ (HasApiCall("getAllInterns") /\ apiRes[1].outcome # "ok")
          => apiRes[1].res.value = MOCK_INTERNS
    /\ (HasApiCall("getActivities") /\ apiRes[1].outcome # "ok")
          => apiRes[1].res.value =
                SelectSeq(INITIAL_ACTIVITIES, LAMBDA a : a.internId = Intern)

C16_Witness ==
    /\ HasApiCall("getActivities")
    /\ apiRes[1].outcome = "notOk"
    /\ ~apiRes[1].res.threw
    /\ \E i \in DOMAIN cloud : cloud[i].internId = Intern
    /\ apiRes[1].res.value = << >>

\* C17: when the scoring call throws or answers with nothing or with text
\* that does not parse, submitActivity still succeeds and the activity it
\* returns carries qualityScore 5; every activity submitActivity returns has
\* a qualityScore.
C17_ScoringFailureGivesDefaultScore ==
    HasApiCall("submitActivity") =>
        /\ apiRes[1].scoring \in {"throws", "empty", "unparsable"}
              => /\ ~apiRes[1].res.threw
                 /\ apiRes[1].res.value[1].qualityScore = DefaultQualityScore
        /\ ~apiRes[1].res.threw => apiRes[1].res.value[1].qualityScore # NoScore
        /\ \A a \in accepted : a.qualityScore # NoScore

C17_Witness ==
    /\ HasApiCall("submitActivity")
    /\ apiRes[1].scoring = "unparsable"
    /\ ~apiRes[1].res.threw
    /\ apiRes[1].res.value[1].qualityScore = DefaultQualityScore
    /\ apiRes[1].res.value[1] \in accepted

-----------------------------------------------------------------------------
(* Claims about the session and the merge of a sync, under AppSpec *)

HasSync == lastSync # << >> /\ ~lastSync[1].threw

\* the places of a list whose record has the merge key
WithKey(list, key) == {i \in DOMAIN list : MergeKey(list[i]) = key}

HasScore(item) == item.qualityScore # NoScore

\* the records of the cloud answer that have the merge key and a qualityScore
ScoredTwins(cloudData, key) ==
    {cloudData[j] : j \in {k \in WithKey(cloudData, key) : HasScore(cloudData[k])}}

\* C21: when a local record and a cloud record of a sync have the same merge
\* key, the merged list holds one record with that key: the local record,
\* unless it has no qualityScore and a cloud record with the key has one, and
\* then a cloud record with a qualityScore; a local record with a
\* qualityScore is never replaced.
C21_MergeKeepsTheScoredRecord ==
    HasSync =>
        \A i \in DOMAIN lastSync[1].prev :
            LET local  == lastSync[1].prev[i]
                key    == MergeKey(local)
                scored == ScoredTwins(lastSync[1].cloudData, key)
                kept   == {lastSync[1].merged[j] : j \in WithKey(lastSync[1].merged, key)}
            IN  WithKey(lastSync[1].cloudData, key) # {}
                   => /\ Cardinality(WithKey(lastSync[1].merged, key)) = 1
                      /\ IF ~HasScore(local) /\ scored # {}
                         THEN kept \subseteq scored
                         ELSE kept = {local}

\* one sync in which a local record without a score is replaced by its scored
\* cloud twin while a scored local record stays though its cloud twin differs
C21_Witness ==
    /\ HasSync
    /\ \E i \in DOMAIN lastSync[1].prev :
          /\ ~HasScore(lastSync[1].prev[i])
          /\ ScoredTwins(lastSync[1].cloudData, MergeKey(lastSync[1].prev[i])) # {}
          /\ \E j \in DOMAIN lastSync[1].merged :
                /\ MergeKey(lastSync[1].merged[j]) = MergeKey(lastSync[1].prev[i])
                /\ HasScore(lastSync[1].merged[j])
    /\ \E i \in DOMAIN lastSync[1].prev, k \in DOMAIN lastSync[1].cloudData :
          /\ HasScore(lastSync[1].prev[i])
          /\ MergeKey(lastSync[1].cloudData[k]) = MergeKey(lastSync[1].prev[i])
          /\ lastSync[1].cloudData[k] # lastSync[1].prev[i]
          /\ \E j \in DOMAIN lastSync[1].merged :
                lastSync[1].merged[j] = lastSync[1].prev[i]

\* the merge keys of the records stored under cial_activities_<internId>
VaultKeys(entry) ==
    IF entry = << >> THEN {} ELSE {MergeKey(entry[1][i]) : i \in DOMAIN entry[1]}

\* C22: a logout and a session expiry remove the two session keys and leave
\* every cial_activities_<internId> entry as it is, a login leaves the entry
\* as it is too, and no step takes a record out of an entry: the cached
\* history survives logins, logouts and expiries.
C22_LogoutKeepsTheVault ==
    [][\A b \in Browsers :
          /\ (session[b] # NoSession /\ session'[b] = NoSession) => vault' = vault
          /\ session'[b] # session[b] => vault'[b] = vault[b]
          /\ VaultKeys(vault[b]) \subseteq VaultKeys(vault'[b])]_vars

\* after a login and a sync that filled the vault the session has ended, by a
\* logout or an expiry, and the vault still holds the records
C22_Witness ==
    \E b \in Browsers :
        /\ app[b] = "ready"
        /\ ~mounted[b]
        /\ session[b] = NoSession
        /\ vault[b] # << >>
        /\ Len(vault[b][1]) = MaxRows

\* both session keys are stored
HasStoredSession(b) == session[b].user # << >> /\ session[b].timestamp # << >>

\* the stored login timestamp falls on the calendar day the clock reads
StoredToday(b) ==
    /\ HasStoredSession(b)
    /\ LocalDay(session[b].timestamp[1], tz) = LocalDay(now, tz)

\* C23: the start effect restores a stored session exactly when its login
\* timestamp falls on the calendar day of the current time, and then leaves
\* the keys; otherwise the user stays logged out and no session key is left;
\* the loading flag is false once the effect has run.  In every state the two
\* session keys are both present or both absent.
C23_StartRestoresTodaysSession ==
    /\ [](\A b \in Browsers :
            /\ (session[b].user = << >>) <=> (session[b].timestamp = << >>)
            /\ app[b] = "ready" => ~appLoading[b])
    /\ [][\A b \in Browsers :
            (app[b] = "started" /\ app'[b] = "ready")
               => /\ mounted'[b] <=> StoredToday(b)
                  /\ StoredToday(b) => session'[b] = session[b]
                  /\ ~StoredToday(b) => session'[b] = NoSession
                  /\ ~appLoading'[b]]_vars

\* the page was opened with a session stored on an earlier day: the start
\* effect is due
C23_Witness ==
    \E b \in Browsers :
        /\ app[b] = "started"
        /\ appLoading[b]
        /\ HasStoredSession(b)
        /\ ~StoredToday(b)
        /\ now - session[b].timestamp[1] < HoursPerDay

-----------------------------------------------------------------------------
(* Claims about the dashboard's history and its vault, under Spec *)

KeysOf(list) == {MergeKey(list[i]) : i \in DOMAIN list}

\* C24: while a dashboard stays mounted, every step (a sync that completes
\* with whatever the cloud returned, a submission, any other) leaves a record
\* for every merge key the activities held, and the number of activities
\* does not go down.
C24_SyncKeepsLocalHistory ==
    [][\A b \in Browsers :
          (mounted[b] /\ mounted'[b])
             => /\ KeysOf(activities[b]) \subseteq KeysOf(activities'[b])
                /\ Len(activities'[b]) >= Len(activities[b])]_vars

\* a sync is under way in a dashboard that holds two records of which the
\* sheet has none: whatever it returns lacks the local history
C24_Witness ==
    \E b \in Browsers :
        /\ mounted[b]
        /\ sync[b] = "sent"
        /\ Len(activities[b]) = 2
        /\ cloud = << >>

\* newest first
SortedByDateDescending(list) ==
    \A i, j \in DOMAIN list : i < j => list[i].date >= list[j].date

\* C25: whenever a mounted dashboard holds activities, the value stored
\* under cial_activities_<internId> is its activities list, which is sorted
\* by date descending; a sync that resolves after the dashboard was
\* unmounted changes neither the activities nor the vault.
C25_VaultFollowsActivities ==
    /\ [](\A b \in Browsers :
            (mounted[b] /\ Len(activities[b]) > 0)
               => /\ vault[b] = << activities[b] >>
                  /\ SortedByDateDescending(activities[b]))
    /\ [][\A b \in Browsers :
            (sync[b] = "orphaned" /\ sync'[b] = "idle")
               => /\ activities' = activities
                  /\ vault' = vault]_vars

\* one dashboard holds two records after syncs and submissions and its vault
\* holds the same list; the other was unmounted with an empty vault, and the
\* sheet has records a sync would have merged into it
C25_Witness ==
    \E b, c \in Browsers :
        /\ mounted[b]
        /\ sync[b] = "idle"
        /\ Len(activities[b]) = 2
        /\ activities[b][1].date > activities[b][2].date
        /\ vault[b] = << activities[b] >>
        /\ ~mounted[c]
        /\ sync[c] = "idle"
        /\ vault[c] = << << >> >>
        /\ cloud # << >>

====